---- MODULE Spec2Model ----
(***************************************************************************)
(* Commute calculator (src/src/App.js): the estimation engine behind the   *)
(* CommuteCalculator component.  Times are milliseconds since an epoch     *)
(* that falls on a local midnight; the local time zone has no DST shift.   *)
(* Math.random() is the value r / RandDenom for r in 0 .. RandDenom - 1.   *)
(* A function that draws random numbers is modelled by the set of results  *)
(* it can return.                                                          *)
(***************************************************************************)
EXTENDS Integers, Sequences, FiniteSets, TLC

VARIABLES
    homeAddress,    \* useState('') line 5
    officeAddress,  \* line 6
    loading,        \* line 7
    results,        \* line 8
    error,          \* line 9
    timeMode,       \* line 10
    arrivalTime,    \* line 11, a sequence of characters
    now,            \* the wall clock (Date.now())
    pc,             \* position of the running handleCalculate: idle, geocoding, routing
    req,            \* the state values the running handleCalculate closed over
    geo,            \* the two geocodeWithDelay promises
    rt,             \* the two calculateCommute* promises
    toOffice,       \* local of handleCalculate, line 192
    toHome,         \* local of handleCalculate, line 192
    abandoned,      \* calls still in flight whose Promise.all has already rejected
    calls,          \* network calls issued by the latest handleCalculate
    errorsSet,      \* setError(non-empty) calls made by the latest handleCalculate
    outcome,        \* how the latest handleCalculate ended: none, rejected, running, failed, success
    invocations,    \* handleCalculate invocations so far
    args,           \* inputs of the function under study (function-level specifications)
    ret             \* its result

vars == <<homeAddress, officeAddress, loading, results, error, timeMode, arrivalTime,
          now, pc, req, geo, rt, toOffice, toHome, abandoned, calls, errorsSet, outcome,
          invocations, args, ret>>

uiVars == <<homeAddress, officeAddress, loading, results, error, timeMode, arrivalTime,
            now, pc, req, geo, rt, toOffice, toHome, abandoned, calls, errorsSet, outcome,
            invocations>>

(***************************************************************************)
(* Bounds                                                                  *)
(***************************************************************************)
RandDenom == 2
MaxUpstreamRoutes == 4
MaxBase == 12
MaxTicks == 2
MaxInvocations == 3

(***************************************************************************)
(* Clock arithmetic                                                        *)
(***************************************************************************)
MinuteMs == 60000
HourMs == 60 * MinuteMs
DayMs == 24 * HourMs
DelayMs == 1000

\* An Invalid Date / NaN, and JavaScript's null, as values outside the range of real timestamps
NaN == 0 - 1
NoDate == 0 - 2

getHours(t) == (t \div HourMs) % 24
getMinutes(t) == (t \div MinuteMs) % 60
StartOfDay(t) == t - (t % DayMs)

\* JavaScript's <= and < on numbers: false as soon as one side is NaN
JsLe(a, b) == a # NaN /\ b # NaN /\ a <= b
JsLt(a, b) == a # NaN /\ b # NaN /\ a < b

\* Math.round of the non-negative rational num / den: floor(x + 1/2)
MathRound(num, den) == (2 * num + den) \div (2 * den)

Min(a, b) == IF a < b THEN a ELSE b

(***************************************************************************)
(* Values                                                                  *)
(***************************************************************************)
Null == [null |-> TRUE]
Undefined == [undefined |-> TRUE]
NoArgs == [none |-> TRUE]
NoRet == [set |-> FALSE]

Directions == {"toOffice", "toHome"}
Sides == {"home", "office"}
OtherDirection(d) == IF d = "toOffice" THEN "toHome" ELSE "toOffice"
OtherSide(a) == IF a = "home" THEN "office" ELSE "home"

(***************************************************************************)
(* simulateTrafficVariation, lines 78-90                                   *)
(***************************************************************************)
RandomDraws == 0 .. (RandDenom - 1)

\* trafficMultiplier * 100 * RandDenom, with Math.random() = r / RandDenom
TrafficMultiplier(hour, r) ==
    IF (hour >= 7 /\ hour <= 9) \/ (hour >= 17 /\ hour <= 19)
    THEN 135 * RandDenom + 15 * r
    ELSE IF (hour >= 6 /\ hour < 7) \/ (hour >= 9 /\ hour < 10)
            \/ (hour >= 16 /\ hour < 17) \/ (hour >= 19 /\ hour < 20)
         THEN 120 * RandDenom + 10 * r
         ELSE 100 * RandDenom + 10 * r

simulateTrafficVariation(baseTime, hour, minute, r) ==
    MathRound(baseTime * TrafficMultiplier(hour, r), 100 * RandDenom)

\* every value one call can return
TrafficOutcomes(baseTime, hour, minute) ==
    {simulateTrafficVariation(baseTime, hour, minute, r) : r \in RandomDraws}

(***************************************************************************)
(* getRoutes, lines 29-55.  resp is the parsed OSRM response               *)
(* [code, routes], each route with its duration in seconds.  The distance, *)
(* highways and steps fields are copied through unchanged by the planner   *)
(* and are left out.                                                       *)
(***************************************************************************)
RouteLabel(i) == IF i = 0 THEN "Fastest Route" ELSE "Alternative " \o ToString(i)

getRoutes(resp) ==
    IF resp.code # "Ok"
    THEN [ok |-> FALSE, message |-> "Routing failed"]
    ELSE [ok |-> TRUE,
          routes |-> [i \in 1 .. Min(3, Len(resp.routes)) |->
                        [type |-> RouteLabel(i - 1),
                         duration |-> MathRound(resp.routes[i].duration, 60)]]]

(***************************************************************************)
(* calculateCommuteLeaveNow, lines 92-115                                  *)
(***************************************************************************)
DurationDisplay(d) == ToString(d) \o " min"

\* lines 106-110: one result entry of a route; two calls of the traffic model
LeaveNowEntries(route, hour, minute) ==
    {[type |-> route.type, duration |-> d, durationDisplay |-> DurationDisplay(s)] :
        d \in TrafficOutcomes(route.duration, hour, minute),
        s \in TrafficOutcomes(route.duration, hour, minute)}

RECURSIVE LeaveNowRouteLists(_, _, _)
LeaveNowRouteLists(routes, hour, minute) ==
    IF routes = <<>> THEN {<<>>}
    ELSE {<<e>> \o rest : e \in LeaveNowEntries(Head(routes), hour, minute),
                          rest \in LeaveNowRouteLists(Tail(routes), hour, minute)}

\* a variant with 10-minute steps
LeaveNowOffset_TenMinutes(i) == i * 10

\* line 98
LeaveNowOffset(i) == i * 15

\* lines 98-111: the scenario of loop index i
LeaveNowScenarios(routes, clock, i) ==
    LET departureTime == clock + LeaveNowOffset(i) * MinuteMs
    IN {[departureTime |-> departureTime, arrivalTime |-> NoDate, routes |-> rl] :
          rl \in LeaveNowRouteLists(routes, getHours(departureTime), getMinutes(departureTime))}

LeaveNowTimes(routes, clock) ==
    {<<s0, s1, s2>> : s0 \in LeaveNowScenarios(routes, clock, 0),
                      s1 \in LeaveNowScenarios(routes, clock, 1),
                      s2 \in LeaveNowScenarios(routes, clock, 2)}

\* a variant that fetches the routes inside the scenario loop
RouteQueriesPerCall_InLoop(nScenarios) == nScenarios

\* the number of getRoutes calls one calculateCommute* call makes for its
\* nScenarios scenarios (lines 94, 119: one call, before the loop)
RouteQueriesPerCall(nScenarios) == 1

calculateCommuteLeaveNow(resp, clock) ==
    LET r == getRoutes(resp)
    IN IF r.ok THEN {[ok |-> TRUE, times |-> t] : t \in LeaveNowTimes(r.routes, clock)}
       ELSE {[ok |-> FALSE, message |-> r.message]}

(***************************************************************************)
(* calculateCommuteByArrival, lines 117-163                                *)
(***************************************************************************)
DigitVal(c) ==
    CASE c = "0" -> 0 [] c = "1" -> 1 [] c = "2" -> 2 [] c = "3" -> 3 [] c = "4" -> 4
      [] c = "5" -> 5 [] c = "6" -> 6 [] c = "7" -> 7 [] c = "8" -> 8 [] c = "9" -> 9

\* Number(s) of a string of decimal digits; Number('') is 0
RECURSIVE NumberOf(_)
NumberOf(s) ==
    IF s = <<>> THEN 0
    ELSE 10 * NumberOf(SubSeq(s, 1, Len(s) - 1)) + DigitVal(s[Len(s)])

\* s.split(':') of a string with one colon
SplitColon(s) ==
    LET k == CHOOSE i \in 1 .. Len(s) : s[i] = ":" /\ \A j \in 1 .. (i - 1) : s[j] # ":"
    IN <<SubSeq(s, 1, k - 1), SubSeq(s, k + 1, Len(s))>>

\* lines 122-129
ArrivalDate(targetArrivalTime, clock) ==
    LET parts == SplitColon(targetArrivalTime)
        targetHour == NumberOf(parts[1])
        targetMinute == NumberOf(parts[2])
        arrivalDate == StartOfDay(clock) + targetHour * HourMs + targetMinute * MinuteMs
    IN IF arrivalDate < clock THEN arrivalDate + DayMs ELSE arrivalDate

RECURSIVE SumDurations(_)
SumDurations(routes) ==
    IF routes = <<>> THEN 0 ELSE Head(routes).duration + SumDurations(Tail(routes))

\* line 132
Buffers == <<0, 10, 20>>

\* lines 136-139; 0 / 0 is NaN.  getRoutes returns at most 3 routes, so the
\* division of the milliseconds is exact
DepartureTime(routes, arrivalDate, buffer) ==
    IF Len(routes) = 0 THEN NaN
    ELSE arrivalDate - ((SumDurations(routes) * MinuteMs) \div Len(routes) + buffer * MinuteMs)

\* a variant that counts equal timestamps as late
OnTime_Strict(estimatedArrival, arrivalDate) == JsLt(estimatedArrival, arrivalDate)

\* line 156
OnTime(estimatedArrival, arrivalDate) == JsLe(estimatedArrival, arrivalDate)

\* lines 147-158: one result entry of a route; one call of the traffic model
ArrivalEntries(route, departureTime, arrivalDate) ==
    {[type |-> route.type, duration |-> adjustedDuration,
      durationDisplay |-> DurationDisplay(adjustedDuration),
      estimatedArrival |-> departureTime + adjustedDuration * MinuteMs,
      onTime |-> OnTime(departureTime + adjustedDuration * MinuteMs, arrivalDate)] :
        adjustedDuration \in TrafficOutcomes(route.duration, getHours(departureTime),
                                             getMinutes(departureTime))}

RECURSIVE ArrivalRouteLists(_, _, _)
ArrivalRouteLists(routes, departureTime, arrivalDate) ==
    IF routes = <<>> THEN {<<>>}
    ELSE {<<e>> \o rest : e \in ArrivalEntries(Head(routes), departureTime, arrivalDate),
                          rest \in ArrivalRouteLists(Tail(routes), departureTime, arrivalDate)}

\* lines 134-159: the scenario of buffer Buffers[k]; allRoutes is the whole list
ArrivalScenarios(allRoutes, arrivalDate, k) ==
    LET departureTime == DepartureTime(allRoutes, arrivalDate, Buffers[k])
    IN {[departureTime |-> departureTime, arrivalTime |-> arrivalDate,
         buffer |-> Buffers[k], routes |-> rl] :
          rl \in ArrivalRouteLists(allRoutes, departureTime, arrivalDate)}

ArrivalTimes(routes, targetArrivalTime, clock) ==
    LET arrivalDate == ArrivalDate(targetArrivalTime, clock)
    IN {<<s1, s2, s3>> : s1 \in ArrivalScenarios(routes, arrivalDate, 1),
                         s2 \in ArrivalScenarios(routes, arrivalDate, 2),
                         s3 \in ArrivalScenarios(routes, arrivalDate, 3)}

calculateCommuteByArrival(resp, targetArrivalTime, clock) ==
    LET r == getRoutes(resp)
    IN IF r.ok
       THEN {[ok |-> TRUE, times |-> t] : t \in ArrivalTimes(r.routes, targetArrivalTime, clock)}
       ELSE {[ok |-> FALSE, message |-> r.message]}

(***************************************************************************)
(* The component: state, user input, handleCalculate (lines 165-211)       *)
(***************************************************************************)
Chars(hh, mm) == <<hh[1], hh[2], ":", mm[1], mm[2]>>
NineOClock == Chars(<<"0", "9">>, <<"0", "0">>)

\* what the user can type or select
Addresses == {"", "Seattle, WA"}
TimeModes == {"now", "arrival"}
ArrivalTimeInputs == {<<>>, NineOClock}

\* what the services can answer: the number of matches of a geocoding
\* search (limit=1), and the OSRM response
GeocodeMatches == {0, 1}
ServiceResponses ==
    {[code |-> "NoRoute", routes |-> <<>>],
     [code |-> "Ok", routes |-> <<>>],
     [code |-> "Ok", routes |-> <<[duration |-> 60]>>]}

StartTimes == {DayMs + 8 * HourMs, DayMs + 9 * HourMs + 30 * MinuteMs}

ZeroCalls == [geocode |-> 0, toOffice |-> 0, toHome |-> 0]
NoGeo == [a \in Sides |-> [st |-> "none", address |-> "", due |-> 0]]
NoRoutes == [d \in Directions |-> [st |-> "none", value |-> Undefined]]

InitUI ==
    /\ homeAddress = ""
    /\ officeAddress = ""
    /\ loading = FALSE
    /\ results = Null
    /\ error = ""
    /\ timeMode = "now"
    /\ arrivalTime = NineOClock
    /\ pc = "idle"
    /\ req = [mode |-> "now", arrivalTime |-> NineOClock]
    /\ geo = NoGeo
    /\ rt = NoRoutes
    /\ toOffice = Undefined
    /\ toHome = Undefined
    /\ abandoned = 0
    /\ calls = ZeroCalls
    /\ errorsSet = 0
    /\ outcome = "none"
    /\ invocations = 0

Init ==
    /\ InitUI
    /\ now \in StartTimes
    /\ args = NoArgs
    /\ ret = NoRet

SetHomeAddress(v) ==
    /\ v # homeAddress
    /\ homeAddress' = v
    /\ UNCHANGED <<officeAddress, loading, results, error, timeMode, arrivalTime, now, pc,
                   req, geo, rt, toOffice, toHome, abandoned, calls, errorsSet, outcome,
                   invocations, args, ret>>

SetOfficeAddress(v) ==
    /\ v # officeAddress
    /\ officeAddress' = v
    /\ UNCHANGED <<homeAddress, loading, results, error, timeMode, arrivalTime, now, pc,
                   req, geo, rt, toOffice, toHome, abandoned, calls, errorsSet, outcome,
                   invocations, args, ret>>

SetTimeMode(v) ==
    /\ v # timeMode
    /\ timeMode' = v
    /\ UNCHANGED <<homeAddress, officeAddress, loading, results, error, arrivalTime, now, pc,
                   req, geo, rt, toOffice, toHome, abandoned, calls, errorsSet, outcome,
                   invocations, args, ret>>

\* the time input is rendered in arrival mode only (line 339)
SetArrivalTime(v) ==
    /\ timeMode = "arrival"
    /\ v # arrivalTime
    /\ arrivalTime' = v
    /\ UNCHANGED <<homeAddress, officeAddress, loading, results, error, timeMode, now, pc,
                   req, geo, rt, toOffice, toHome, abandoned, calls, errorsSet, outcome,
                   invocations, args, ret>>

\* the clock advances; it is followed for MaxTicks seconds
Tick ==
    /\ now % MinuteMs < MaxTicks * DelayMs
    /\ now' = now + DelayMs
    /\ UNCHANGED <<homeAddress, officeAddress, loading, results, error, timeMode, arrivalTime,
                   pc, req, geo, rt, toOffice, toHome, abandoned, calls, errorsSet, outcome,
                   invocations, args, ret>>

\* lines 166-174: a validation message and an early return
Reject(message) ==
    /\ error' = message
    /\ errorsSet' = 1
    /\ calls' = ZeroCalls
    /\ outcome' = "rejected"
    /\ UNCHANGED <<loading, results, pc, req, geo, rt, toOffice, toHome, abandoned>>

\* lines 176-190: the state is reset and both geocodeWithDelay calls are
\* made; each runs up to its fetch
Begin ==
    /\ loading' = TRUE
    /\ error' = ""
    /\ results' = Null
    /\ pc' = "geocoding"
    /\ req' = [mode |-> timeMode, arrivalTime |-> arrivalTime]
    /\ geo' = [a \in Sides |->
                 [st |-> "fetch",
                  address |-> IF a = "home" THEN homeAddress ELSE officeAddress,
                  due |-> 0]]
    /\ rt' = NoRoutes
    /\ toOffice' = Undefined
    /\ toHome' = Undefined
    /\ calls' = [geocode |-> 2, toOffice |-> 0, toHome |-> 0]
    /\ errorsSet' = 0
    /\ outcome' = "running"
    /\ UNCHANGED abandoned

\* the click on the button (line 361), enabled while not loading (line 362)
HandleCalculate ==
    /\ ~loading
    /\ invocations < MaxInvocations
    /\ invocations' = invocations + 1
    /\ IF homeAddress = "" \/ officeAddress = ""
       THEN Reject("Please enter both addresses")
       ELSE IF timeMode = "arrival" /\ arrivalTime = <<>>
            THEN Reject("Please enter arrival time")
            ELSE Begin
    /\ UNCHANGED <<homeAddress, officeAddress, timeMode, arrivalTime, now, args, ret>>

\* a variant that stores whatever the locals hold when a call throws
Catch_StorePartial(message) ==
    /\ error' = (IF message = ""
                 THEN "Failed to calculate commute. Please check your addresses."
                 ELSE message)
    /\ loading' = FALSE
    /\ results' = [toOffice |-> toOffice, toHome |-> toHome, mode |-> req.mode]

\* lines 206-210: catch and finally
Catch(message) ==
    /\ error' = (IF message = ""
                 THEN "Failed to calculate commute. Please check your addresses."
                 ELSE message)
    /\ loading' = FALSE
    /\ UNCHANGED results

\* a call of the running handleCalculate throws: Promise.all, or the await,
\* rejects and the handler ends; stillRunning calls stay in flight, unobserved
Throw(message, stillRunning) ==
    /\ Catch(message)
    /\ pc' = "idle"
    /\ geo' = NoGeo
    /\ rt' = NoRoutes
    /\ toOffice' = Undefined
    /\ toHome' = Undefined
    /\ abandoned' = abandoned + stillRunning
    /\ errorsSet' = errorsSet + 1
    /\ outcome' = "failed"
    /\ UNCHANGED <<req, calls>>

\* a variant that goes on as soon as one address is resolved
AllResolved_Any(g) == \E a \in Sides : g[a].st = "done"

\* Promise.all of line 187 resolves when both geocodeWithDelay calls have
AllResolved(g) == \A a \in Sides : g[a].st = "done"

\* lines 14-26, 182: the response to a geocoding fetch arrives
GeocodeResponse(a, matches) ==
    /\ pc = "geocoding"
    /\ geo[a].st = "fetch"
    /\ IF matches = 0
       THEN Throw("Could not find: " \o geo[a].address,
                  IF geo[OtherSide(a)].st \in {"fetch", "delay"} THEN 1 ELSE 0)
       ELSE /\ geo' = [geo EXCEPT ![a].st = "delay", ![a].due = now + DelayMs]
            /\ UNCHANGED <<loading, results, error, pc, req, rt, toOffice, toHome, abandoned,
                           calls, errorsSet, outcome>>
    /\ UNCHANGED <<homeAddress, officeAddress, timeMode, arrivalTime, now, invocations,
                   args, ret>>

\* lines 192-202, up to the first await: the route lookups issued once both
\* coordinates are there
IssueRoutes ==
    IF req.mode = "now"
    THEN /\ rt' = [d \in Directions |-> [st |-> "fetch", value |-> Undefined]]
         /\ calls' = [calls EXCEPT !.toOffice = @ + RouteQueriesPerCall(3),
                                   !.toHome = @ + RouteQueriesPerCall(3)]
    ELSE /\ rt' = [rt EXCEPT !["toOffice"] = [st |-> "fetch", value |-> Undefined]]
         /\ calls' = [calls EXCEPT !.toOffice = @ + RouteQueriesPerCall(3)]

\* line 183: the timer of a geocodeWithDelay fires; with both done the
\* handler goes on to the routes
GeocodeTimerFires(a) ==
    /\ pc = "geocoding"
    /\ geo[a].st = "delay"
    /\ now >= geo[a].due
    /\ geo' = [geo EXCEPT ![a].st = "done"]
    /\ IF AllResolved(geo')
       THEN pc' = "routing" /\ IssueRoutes
       ELSE UNCHANGED <<pc, rt, calls>>
    /\ UNCHANGED <<homeAddress, officeAddress, loading, results, error, timeMode, arrivalTime,
                   now, req, toOffice, toHome, abandoned, errorsSet, outcome, invocations,
                   args, ret>>

\* lines 205, 209: the locals are stored and the handler ends
Finish(office, home) ==
    /\ results' = [toOffice |-> office, toHome |-> home, mode |-> req.mode]
    /\ loading' = FALSE
    /\ pc' = "idle"
    /\ geo' = NoGeo
    /\ rt' = NoRoutes
    /\ toOffice' = Undefined
    /\ toHome' = Undefined
    /\ outcome' = "success"
    /\ UNCHANGED <<error, req, abandoned, calls, errorsSet>>

\* lines 94, 119 and on: the response to the route fetch of direction d
\* arrives and its calculateCommute* call runs to its end
RouteResponse(d, resp) ==
    /\ pc = "routing"
    /\ rt[d].st = "fetch"
    /\ \E o \in (IF d = "toOffice" /\ req.mode = "arrival"
                 THEN calculateCommuteByArrival(resp, req.arrivalTime, now)
                 ELSE calculateCommuteLeaveNow(resp, now)) :
          IF ~o.ok
          THEN Throw(o.message, IF rt[OtherDirection(d)].st = "fetch" THEN 1 ELSE 0)
          ELSE LET value == [times |-> o.times]
               IN IF req.mode = "now"
                  THEN IF rt[OtherDirection(d)].st = "done"
                       THEN IF d = "toOffice"
                            THEN Finish(value, rt["toHome"].value)
                            ELSE Finish(rt["toOffice"].value, value)
                       ELSE /\ rt' = [rt EXCEPT ![d] = [st |-> "done", value |-> value]]
                            /\ UNCHANGED <<loading, results, error, pc, req, geo, toOffice,
                                           toHome, abandoned, calls, errorsSet, outcome>>
                  ELSE IF d = "toOffice"
                       THEN /\ toOffice' = value
                            /\ rt' = [toOffice |-> [st |-> "done", value |-> value],
                                      toHome |-> [st |-> "fetch", value |-> Undefined]]
                            /\ calls' = [calls EXCEPT !.toHome = @ + RouteQueriesPerCall(3)]
                            /\ UNCHANGED <<loading, results, error, pc, req, geo, toHome,
                                           abandoned, errorsSet, outcome>>
                       ELSE Finish(toOffice, value)
    /\ UNCHANGED <<homeAddress, officeAddress, timeMode, arrivalTime, now, invocations,
                   args, ret>>

\* a call left in flight by a rejected Promise.all completes; nothing reads it
AbandonedCompletes ==
    /\ abandoned > 0
    /\ abandoned' = abandoned - 1
    /\ UNCHANGED <<homeAddress, officeAddress, loading, results, error, timeMode, arrivalTime,
                   now, pc, req, geo, rt, toOffice, toHome, calls, errorsSet, outcome,
                   invocations, args, ret>>

Next ==
    \/ \E v \in Addresses : SetHomeAddress(v)
    \/ \E v \in Addresses : SetOfficeAddress(v)
    \/ \E v \in TimeModes : SetTimeMode(v)
    \/ \E v \in ArrivalTimeInputs : SetArrivalTime(v)
    \/ Tick
    \/ HandleCalculate
    \/ \E a \in Sides, m \in GeocodeMatches : GeocodeResponse(a, m)
    \/ \E a \in Sides : GeocodeTimerFires(a)
    \/ \E d \in Directions, resp \in ServiceResponses : RouteResponse(d, resp)
    \/ AbandonedCompletes

Spec == Init /\ [][Next]_vars

(***************************************************************************)
(* Function-level specifications: the inputs are drawn by the initial      *)
(* state and one action applies the function.                              *)
(***************************************************************************)
Idle == InitUI /\ now = DayMs

\* simulateTrafficVariation
TrafficInputs == [baseTime : 1 .. MaxBase, hour : 0 .. 23, minute : {0, 30}]

InitTraffic == Idle /\ args \in TrafficInputs /\ ret = NoRet

CallTraffic ==
    /\ ret = NoRet
    /\ \E r \in RandomDraws :
          ret' = [set |-> TRUE,
                  val |-> simulateTrafficVariation(args.baseTime, args.hour, args.minute, r)]
    /\ UNCHANGED <<uiVars, args>>

NextTraffic == CallTraffic

SpecTraffic == InitTraffic /\ [][NextTraffic]_vars

\* getRoutes
UpstreamDurations == {90, 600, 1530}

RECURSIVE SeqsUpTo(_, _)
SeqsUpTo(S, n) ==
    IF n = 0 THEN {<<>>}
    ELSE SeqsUpTo(S, n - 1) \cup {Append(q, x) : q \in SeqsUpTo(S, n - 1), x \in S}

UpstreamResponses ==
    [code : {"Ok", "NoRoute"},
     routes : SeqsUpTo([duration : UpstreamDurations], MaxUpstreamRoutes)]

InitRoutes == Idle /\ args \in UpstreamResponses /\ ret = NoRet

CallGetRoutes ==
    /\ ret = NoRet
    /\ ret' = [set |-> TRUE, val |-> getRoutes(args)]
    /\ UNCHANGED <<uiVars, args>>

NextRoutes == CallGetRoutes

SpecRoutes == InitRoutes /\ [][NextRoutes]_vars

\* calculateCommuteLeaveNow and calculateCommuteByArrival
PlanResponses ==
    {[code |-> "NoRoute", routes |-> <<>>],
     [code |-> "Ok", routes |-> <<>>],
     [code |-> "Ok", routes |-> <<[duration |-> 600]>>],
     [code |-> "Ok", routes |-> <<[duration |-> 600], [duration |-> 660]>>],
     [code |-> "Ok", routes |-> <<[duration |-> 600], [duration |-> 600]>>],
     [code |-> "Ok", routes |-> <<[duration |-> 60], [duration |-> 60], [duration |-> 40],
                                  [duration |-> 60]>>]}

PlanClocks ==
    {DayMs + 6 * HourMs + 50 * MinuteMs,
     DayMs + 8 * HourMs,
     DayMs + 9 * HourMs + 30 * MinuteMs,
     DayMs + 23 * HourMs + 50 * MinuteMs}

PlanTargets ==
    {Chars(<<"0", "0">>, <<"1", "0">>), Chars(<<"0", "8">>, <<"0", "0">>), NineOClock}

PlanInputs == [resp : PlanResponses, clock : PlanClocks, targetArrivalTime : PlanTargets]

InitPlan == Idle /\ args \in PlanInputs /\ ret = NoRet

CallLeaveNow ==
    /\ ret = NoRet
    /\ \E o \in calculateCommuteLeaveNow(args.resp, args.clock) :
          ret' = [set |-> TRUE, fn |-> "leaveNow", val |-> o]
    /\ UNCHANGED <<uiVars, args>>

CallByArrival ==
    /\ ret = NoRet
    /\ \E o \in calculateCommuteByArrival(args.resp, args.targetArrivalTime, args.clock) :
          ret' = [set |-> TRUE, fn |-> "byArrival", val |-> o]
    /\ UNCHANGED <<uiVars, args>>

NextPlan == CallLeaveNow \/ CallByArrival

SpecPlan == InitPlan /\ [][NextPlan]_vars

(***************************************************************************)
(* Properties                                                              *)
(***************************************************************************)
AddressesResolved == geo["home"].st = "done" /\ geo["office"].st = "done"
Populated(v) == v # Undefined /\ Len(v.times) = 3
Display(d) == ToString(d) \o " min"
Labels == <<"Fastest Route", "Alternative 1", "Alternative 2">>
Kept(resp) == getRoutes(resp).routes

\* C1: when a geocoding or routing call of a calculation throws, the
\* calculation ends with results = null and exactly one non-empty error
\* message; and a stored result always holds both directions.
C1_FailureLeavesNoResult ==
    /\ outcome = "failed" =>
          /\ pc = "idle" /\ ~loading
          /\ results = Null
          /\ error # ""
          /\ errorsSet = 1
    /\ results # Null => Populated(results.toOffice) /\ Populated(results.toHome)

\* a routing call failed while the other direction's call was still in flight
C1_Witness == outcome = "failed" /\ calls.toOffice = 1 /\ abandoned > 0

\* C2: a calculation queries the routing service at most once per direction,
\* a successful one exactly once per direction, and the 3 scenarios of a
\* direction hold the same routes.
C2_OneRouteQueryPerDirection ==
    /\ \A d \in Directions : calls[d] <= 1
    /\ outcome = "success" =>
          /\ calls.toOffice = 1 /\ calls.toHome = 1
          /\ \A side \in {results.toOffice, results.toHome} : \A k \in 1 .. 3 :
                /\ Len(side.times[k].routes) = Len(side.times[1].routes)
                /\ \A j \in 1 .. Len(side.times[k].routes) :
                      side.times[k].routes[j].type = side.times[1].routes[j].type

C2_Witness ==
    /\ outcome = "success"
    /\ results.mode = "arrival"
    /\ Len(results.toOffice.times[3].routes) = 1
    /\ Len(results.toHome.times[3].routes) = 1

\* C3: in every route entry of every scenario, of both modes, durationDisplay
\* is "<duration> min" of the same entry.
C3_DisplayMatchesDuration ==
    (ret.set /\ ret.val.ok) =>
        \A k \in 1 .. Len(ret.val.times) : \A j \in 1 .. Len(ret.val.times[k].routes) :
            ret.val.times[k].routes[j].durationDisplay
                = Display(ret.val.times[k].routes[j].duration)

\* C4 as stated: no route lookup before both addresses are resolved, and
\* once the routing has begun both lookups have been issued, in either mode.
C4_LookupsConcurrentInEveryMode ==
    /\ (outcome = "running" /\ calls.toOffice + calls.toHome > 0) => AddressesResolved
    /\ pc = "routing" => \A d \in Directions : rt[d].st # "none"

\* C4 amended: no route lookup before both addresses are resolved; in
\* leave-now mode both lookups are issued together; in arrive-by mode the
\* destination->origin lookup is issued only once the origin->destination
\* lookup has returned.
C4_LookupsConcurrentInLeaveNow ==
    /\ (outcome = "running" /\ calls.toOffice + calls.toHome > 0) => AddressesResolved
    /\ (pc = "routing" /\ req.mode = "now") => \A d \in Directions : rt[d].st # "none"
    /\ (pc = "routing" /\ req.mode = "arrival") =>
          (rt["toHome"].st # "none" <=> rt["toOffice"].st = "done")

\* arrive-by mode, the first lookup in flight and the second not yet issued
C4_Witness ==
    /\ pc = "routing" /\ req.mode = "arrival"
    /\ rt["toOffice"].st = "fetch" /\ rt["toHome"].st = "none" /\ calls.toHome = 0

\* C5: calculateCommuteLeaveNow returns 3 scenarios departing at now, now + 15
\* and now + 30 minutes, each with one entry per fetched route, in order,
\* adjusted for the hour of the scenario's own departure.
C5_LeaveNowScenarios ==
    (ret.set /\ ret.fn = "leaveNow" /\ ret.val.ok) =>
        /\ Len(ret.val.times) = 3
        /\ \A k \in 1 .. 3 :
              LET s == ret.val.times[k]
                  dep == args.clock + (k - 1) * 15 * 60000
              IN /\ s.departureTime = dep
                 /\ Len(s.routes) = Len(Kept(args.resp))
                 /\ \A j \in 1 .. Len(s.routes) :
                       /\ s.routes[j].type = Kept(args.resp)[j].type
                       /\ s.routes[j].duration \in
                             TrafficOutcomes(Kept(args.resp)[j].duration,
                                             (dep \div 3600000) % 24, (dep \div 60000) % 60)

\* departures at 06:50, 07:05 and 07:20: the first in the shoulder bucket, the others at peak
C5_Witness ==
    /\ ret.set /\ ret.fn = "leaveNow" /\ ret.val.ok
    /\ Len(ret.val.times[1].routes) = 2
    /\ args.clock = DayMs + 6 * HourMs + 50 * MinuteMs
    /\ ret.val.times[1].routes[1].duration = 12
    /\ ret.val.times[2].routes[1].duration = 14
    /\ ret.val.times[3].routes[2].duration = 16

TargetMinuteOfDay(t) ==
    CASE t = <<"0", "0", ":", "1", "0">> -> 10
      [] t = <<"0", "8", ":", "0", "0">> -> 480
      [] t = <<"0", "9", ":", "0", "0">> -> 540

TargetInstant(t, clock) ==
    LET today == StartOfDay(clock) + TargetMinuteOfDay(t) * MinuteMs
    IN IF today < clock THEN today + DayMs ELSE today

\* C6: calculateCommuteByArrival resolves the target to today, or to tomorrow
\* when today's instant is before now, and returns 3 scenarios with buffers
\* 0, 10, 20 departing at target - (mean base duration + buffer) minutes, so
\* every departure is <= the target and a larger buffer departs strictly earlier.
C6_ArriveByDepartures ==
    (ret.set /\ ret.fn = "byArrival" /\ ret.val.ok) =>
        LET times == ret.val.times
            base == Kept(args.resp)
            target == TargetInstant(args.targetArrivalTime, args.clock)
        IN /\ Len(times) = 3
           /\ \A k \in 1 .. 3 :
                 /\ times[k].arrivalTime = target
                 /\ times[k].buffer = 10 * (k - 1)
                 /\ Len(base) * (target - times[k].departureTime)
                       = (SumDurations(base) + Len(base) * 10 * (k - 1)) * MinuteMs
                 /\ JsLe(times[k].departureTime, target)
                 /\ k < 3 => JsLt(times[k + 1].departureTime, times[k].departureTime)

\* C7: in every arrive-by entry estimatedArrival = departureTime + duration
\* minutes, and onTime holds iff estimatedArrival <= the target arrival.
C7_OnTimeIffNotAfterTarget ==
    (ret.set /\ ret.fn = "byArrival" /\ ret.val.ok) =>
        \A k \in 1 .. Len(ret.val.times) :
            LET s == ret.val.times[k]
            IN \A j \in 1 .. Len(s.routes) :
                  /\ s.routes[j].estimatedArrival
                        = s.departureTime + s.routes[j].duration * 60000
                  /\ s.routes[j].onTime <=> s.routes[j].estimatedArrival <= s.arrivalTime

\* two routes of 10 minutes: one entry arrives exactly at the target and is
\* on time, the other arrives a minute late
C7_Witness ==
    /\ ret.set /\ ret.fn = "byArrival" /\ ret.val.ok
    /\ Len(ret.val.times[1].routes) = 2
    /\ ret.val.times[1].routes[1].estimatedArrival = ret.val.times[1].arrivalTime
    /\ ret.val.times[1].routes[1].onTime
    /\ ret.val.times[1].routes[2].estimatedArrival > ret.val.times[1].arrivalTime
    /\ ~ret.val.times[1].routes[2].onTime

\* C8: getRoutes either fails with the routing error or returns 1 to 3
\* routes in upstream order, labelled Fastest Route, Alternative 1,
\* Alternative 2; a response without routes is a failure.
C8_RoutesNonEmptyAndLabelled ==
    ret.set =>
        /\ (args.code # "Ok" \/ args.routes = <<>>) => ~ret.val.ok
        /\ ~ret.val.ok => ret.val.message = "Routing failed"
        /\ ret.val.ok =>
              /\ Len(ret.val.routes) \in 1 .. 3
              /\ Len(ret.val.routes) <= Len(args.routes)
              /\ \A i \in 1 .. Len(ret.val.routes) :
                    /\ ret.val.routes[i].type = Labels[i]
                    /\ ret.val.routes[i].duration = MathRound(args.routes[i].duration, 60)

\* C9: at hours 6, 9, 16 and 19 the result lies between round(base * 1.15)
\* and round(base * 1.30).
C9_ShoulderHoursRange ==
    (ret.set /\ args.hour \in {6, 9, 16, 19}) =>
        /\ ret.val >= MathRound(args.baseTime * 115, 100)
        /\ ret.val <= MathRound(args.baseTime * 130, 100)

\* C10: whenever the error message is non-empty, results is null; and a
\* request rejected by validation issues no geocoding or routing call.
C10_ErrorNeverWithResult ==
    /\ error # "" => results = Null
    /\ outcome = "rejected" => calls = ZeroCalls /\ pc = "idle"

====
